---- MODULE Spec2Model ----
(***************************************************************************)
(* State-machine model of the BlindOracle prediction market contract       *)
(* (contracts/BlindOracle.sol) together with the two collaborators its     *)
(* handlers call: the FHE library's decryption-request bookkeeping and the *)
(* PriceOracle feed.  Spec follows a market deployed directly by an         *)
(* account; FactorySpec follows a market deployed by                       *)
(* MarketFactory.createMarket.                                             *)
(*                                                                         *)
(* Every external function is one action.  A transaction that reverts      *)
(* leaves the whole state unchanged (EVM semantics); the reason a call     *)
(* reverts is computed by the <function>Revert operator, which walks the   *)
(* function's modifiers and require statements in source order and returns *)
(* the first failing message ("" when the call goes through).              *)
(*                                                                         *)
(* Encrypted values are modelled by their plaintext: euint8 arithmetic is  *)
(* modulo 256, euint64 arithmetic wraps modulo 2^Width64.                  *)
(***************************************************************************)
EXTENDS Integers, Sequences, FiniteSets, TLC

\* ------------------------------------------------------------------ bounds

\* Width of the wrap-around of euint64 arithmetic in the model.  The contract
\* uses 64 bits; TLC's integers have 32, so the model keeps the wrap-around
\* at a narrower width and draws amounts up to the largest value of it.
Width64 == 16

\* Number of decryption requests the FHE library issues in one run.
MaxRequests == 3

\* How far past one challenge period the clock of a run goes.
Slack == 2

\* ---------------------------------------------------------------- constants

CHALLENGE_PERIOD == 86400

MAX_PRICE_AGE == 86400

Mod8 == 256

Mod64 == 2 ^ Width64

MaxTime == CHALLENGE_PERIOD + Slack

\* Accounts that send transactions; the account "owner" is the one that
\* deploys the market in Init.  Each address commits at most once, so the
\* number of participants of a run is at most the number of addresses.
Addrs == {"owner", "alice"}

Phases == <<"BlindCommitment", "Aggregating", "AwaitingDecryption", "Settled">>

PhaseOrd(p) == CHOOSE i \in 1..4 : Phases[i] = p

MarketTypes == {"Event", "Price"}

\* Inputs the transactions are drawn from.
Predictions == {0, 1, 2}

Amounts == {1, Mod64 - 1}

Values == {0, 1}

StakeValues == {0, 1, 25}

\* Block timestamps a run passes through: the first seconds after deployment
\* and the seconds around one challenge period later.
Times == (1 .. Slack) \cup ((CHALLENGE_PERIOD + 1) .. MaxTime)

EventDurations == {0, 1}

TargetPrices == {2}

Prices == {1, 2}

VARIABLES
    owner,          \* BlindOracle.owner: msg.sender of the constructor
    currentPhase, marketType, commitmentDeadline, eventDeadline, targetPrice,
    commitments, participants,
    encryptedTotalYes, encryptedTotalNo, aggregateDecryptionRequestId,
    isAggregated, totalYesAmount, totalNoAmount,
    isSettled, finalOutcome, settlementProposedTime, proposedOutcome,
    isSettlementProposed, ownerStake, hasClaimed, claimRequestIds,
    balance,        \* address(this).balance
    now,            \* block.timestamp
    requests,       \* FHE library: the handles saved for request id i are requests[i+1]
    priceData,      \* PriceOracle.prices[targetAsset]
    received,       \* wei each account has been sent by callbackClaimRewards
    committedValue, \* sum of msg.value over the commitPrediction calls that went through
    markets,        \* MarketFactory.markets
    creatorMarkets, \* MarketFactory.creatorMarkets
    marketInfo      \* MarketFactory.marketInfo, by position in markets

marketVars == <<owner, currentPhase, marketType, commitmentDeadline, eventDeadline, targetPrice,
    commitments, participants,
    encryptedTotalYes, encryptedTotalNo, aggregateDecryptionRequestId,
    isAggregated, totalYesAmount, totalNoAmount,
    isSettled, finalOutcome, settlementProposedTime, proposedOutcome,
    isSettlementProposed, ownerStake, hasClaimed, claimRequestIds, balance>>

factoryVars == <<markets, creatorMarkets, marketInfo>>

vars == <<marketVars, now, requests, priceData, received, committedValue, factoryVars>>

\* ------------------------------------------------------------ constructor

NoCommitment == [encryptedPrediction |-> 0, encryptedAmount |-> 0, hasCommitted |-> FALSE]

\* The market as deployed by the account "owner" itself; the factory has
\* created nothing.
Init ==
    /\ now = 1
    /\ owner = "owner"
    /\ marketType \in MarketTypes
    /\ currentPhase = "BlindCommitment"
    /\ commitmentDeadline = now + 1
    /\ \E eventDuration \in EventDurations : eventDeadline = commitmentDeadline + eventDuration
    /\ targetPrice \in (IF marketType = "Price" THEN TargetPrices ELSE {0})
    /\ commitments = [a \in Addrs |-> NoCommitment]
    /\ participants = <<>>
    /\ encryptedTotalYes = 0
    /\ encryptedTotalNo = 0
    /\ aggregateDecryptionRequestId = 0
    /\ isAggregated = FALSE
    /\ totalYesAmount = 0
    /\ totalNoAmount = 0
    /\ isSettled = FALSE
    /\ finalOutcome = FALSE
    /\ settlementProposedTime = 0
    /\ proposedOutcome = FALSE
    /\ isSettlementProposed = FALSE
    /\ ownerStake = 0
    /\ hasClaimed = [a \in Addrs |-> FALSE]
    /\ claimRequestIds = [a \in Addrs |-> 0]
    /\ balance = 0
    /\ requests = <<>>
    /\ priceData = [price |-> 1, timestamp |-> now]
    /\ received = [a \in Addrs |-> 0]
    /\ committedValue = 0
    /\ markets = <<>>
    /\ creatorMarkets = [a \in Addrs |-> <<>>]
    /\ marketInfo = <<>>

\* ------------------------------------------------------- Phase 1: commitment

\* commitPredictionRevert without the hasCommitted check.
commitPredictionRevert_NoDup(sender, value, proofsOk) ==
    IF currentPhase # "BlindCommitment" THEN "Invalid phase for this operation"
    ELSE IF ~(now < commitmentDeadline) THEN "Commitment period has ended"
    ELSE IF ~(value > 0) THEN "Must send ETH with commitment"
    ELSE IF marketType = "Event" /\ sender = owner THEN "Owner cannot participate in event markets"
    ELSE IF ~proofsOk THEN "InvalidProof"
    ELSE ""

\* commitPredictionRevert without the msg.value check.
commitPredictionRevert_NoValue(sender, value, proofsOk) ==
    IF currentPhase # "BlindCommitment" THEN "Invalid phase for this operation"
    ELSE IF ~(now < commitmentDeadline) THEN "Commitment period has ended"
    ELSE IF commitments[sender].hasCommitted THEN "Already committed"
    ELSE IF marketType = "Event" /\ sender = owner THEN "Owner cannot participate in event markets"
    ELSE IF ~proofsOk THEN "InvalidProof"
    ELSE ""

\* commitPredictionRevert without the owner check of event markets.
commitPredictionRevert_NoOwner(sender, value, proofsOk) ==
    IF currentPhase # "BlindCommitment" THEN "Invalid phase for this operation"
    ELSE IF ~(now < commitmentDeadline) THEN "Commitment period has ended"
    ELSE IF commitments[sender].hasCommitted THEN "Already committed"
    ELSE IF ~(value > 0) THEN "Must send ETH with commitment"
    ELSE IF ~proofsOk THEN "InvalidProof"
    ELSE ""

\* commitPredictionRevert without the commitment deadline check.
commitPredictionRevert_NoDeadline(sender, value, proofsOk) ==
    IF currentPhase # "BlindCommitment" THEN "Invalid phase for this operation"
    ELSE IF commitments[sender].hasCommitted THEN "Already committed"
    ELSE IF ~(value > 0) THEN "Must send ETH with commitment"
    ELSE IF marketType = "Event" /\ sender = owner THEN "Owner cannot participate in event markets"
    ELSE IF ~proofsOk THEN "InvalidProof"
    ELSE ""

commitPredictionRevert(sender, value, proofsOk) ==
    IF currentPhase # "BlindCommitment" THEN "Invalid phase for this operation"
    ELSE IF ~(now < commitmentDeadline) THEN "Commitment period has ended"
    ELSE IF commitments[sender].hasCommitted THEN "Already committed"
    ELSE IF ~(value > 0) THEN "Must send ETH with commitment"
    ELSE IF marketType = "Event" /\ sender = owner THEN "Owner cannot participate in event markets"
    ELSE IF ~proofsOk THEN "InvalidProof"
    ELSE ""

\* The two encrypted inputs are drawn when the call goes through: no check
\* of the function reads them.
commitPrediction(sender, value, proofsOk) ==
    IF commitPredictionRevert(sender, value, proofsOk) # ""
    THEN UNCHANGED vars
    ELSE /\ \E prediction \in Predictions, amount \in Amounts :
                commitments' = [commitments EXCEPT ![sender] =
                    [encryptedPrediction |-> prediction,
                     encryptedAmount |-> amount,
                     hasCommitted |-> TRUE]]
         /\ participants' = Append(participants, sender)
         /\ balance' = balance + value
         /\ committedValue' = committedValue + value
         /\ UNCHANGED <<currentPhase, marketType, commitmentDeadline, eventDeadline,
                targetPrice, encryptedTotalYes, encryptedTotalNo,
                aggregateDecryptionRequestId, isAggregated, totalYesAmount,
                totalNoAmount, isSettled, finalOutcome, settlementProposedTime,
                proposedOutcome, isSettlementProposed, ownerStake, hasClaimed,
                claimRequestIds, now, requests, priceData, received,
                owner, factoryVars>>

\* -------------------------------------------------- FHE library (encrypted ops)

\* FHE.sub on euint8: wraps modulo 2^8.
Sub8(a, b) == (a + Mod8 - b) % Mod8

\* FHE.mul and FHE.add on euint64: wrap modulo the euint64 width.
Mul64(a, b) == (a * b) % Mod64

Add64(a, b) == (a + b) % Mod64

\* One iteration of the loop of aggregateBets on the running totals acc = <<yes, no>>.
AddContribution(acc, participant) ==
    LET prediction == commitments[participant].encryptedPrediction
        amount == commitments[participant].encryptedAmount
        isYes == prediction
        isNo == Sub8(1, prediction)
        yesContribution == Mul64(amount, isYes)
        noContribution == Mul64(amount, isNo)
    IN  <<Add64(acc[1], yesContribution), Add64(acc[2], noContribution)>>

\* The loop of aggregateBets over participants[1..n], in insertion order, from <<0, 0>>.
RECURSIVE AggregateLoop(_)
AggregateLoop(n) ==
    IF n = 0 THEN <<0, 0>>
    ELSE AddContribution(AggregateLoop(n - 1), participants[n])

\* ------------------------------------------- FHE library (decryption requests)

\* FHE.requestDecryption numbers the requests of a contract 0, 1, 2, ... and
\* saves the handles of each; the model keeps, for request id i, whose
\* handles they are in requests[i+1]: "aggregate" for the two totals, or the
\* participant whose commitment was submitted.
NextRequestId == Len(requests)

\* What a decryption proof can be about: the handles of a request the contract
\* has made (only those are released for decryption), or nothing ("forged").
ProofSubjects == {"aggregate", "forged"} \cup Addrs

\* The cleartexts that come with a proof: the decryption of the handles it signs.
Cleartexts(proof) ==
    IF proof = "aggregate" THEN <<encryptedTotalYes, encryptedTotalNo>>
    ELSE IF proof \in Addrs
         THEN <<commitments[proof].encryptedPrediction, commitments[proof].encryptedAmount>>
         ELSE <<1, 1>>

\* FHE.checkSignatures(requestId, cleartexts, proof): loads the handles saved
\* for requestId (reverts when there are none) and verifies the KMS signatures
\* over those handles and the cleartexts.
checkSignatures(requestId, proof) ==
    /\ requestId < Len(requests)
    /\ proof # "forged"
    /\ requests[requestId + 1] = proof

RequestIds == 0 .. MaxRequests

\* --------------------------------------------------- Phase 2: price discovery

\* aggregateBetsRevert without the onlyInPhase modifier.
aggregateBetsRevert_NoPhase ==
    IF ~(now >= commitmentDeadline) THEN "Commitment period not ended"
    ELSE IF ~(Len(participants) > 0) THEN "No participants"
    ELSE ""

\* aggregateBetsRevert without the deadline check.
aggregateBetsRevert_NoDeadline ==
    IF currentPhase # "BlindCommitment" THEN "Invalid phase for this operation"
    ELSE IF ~(Len(participants) > 0) THEN "No participants"
    ELSE ""

aggregateBetsRevert ==
    IF currentPhase # "BlindCommitment" THEN "Invalid phase for this operation"
    ELSE IF ~(now >= commitmentDeadline) THEN "Commitment period not ended"
    ELSE IF ~(Len(participants) > 0) THEN "No participants"
    ELSE ""

\* aggregateBets that also writes the plaintext totals.
aggregateBets_Reveal(sender) ==
    IF aggregateBetsRevert # ""
    THEN UNCHANGED vars
    ELSE /\ encryptedTotalYes' = AggregateLoop(Len(participants))[1]
         /\ encryptedTotalNo' = AggregateLoop(Len(participants))[2]
         /\ totalYesAmount' = AggregateLoop(Len(participants))[1]
         /\ totalNoAmount' = AggregateLoop(Len(participants))[2]
         /\ isAggregated' = TRUE
         /\ currentPhase' = "Aggregating"
         /\ UNCHANGED <<marketType, commitmentDeadline, eventDeadline, targetPrice,
                commitments, participants, aggregateDecryptionRequestId,
                isSettled, finalOutcome,
                settlementProposedTime, proposedOutcome, isSettlementProposed,
                ownerStake, hasClaimed, claimRequestIds, balance,
                now, requests, priceData, received, committedValue,
                owner, factoryVars>>

aggregateBets(sender) ==
    IF aggregateBetsRevert # ""
    THEN UNCHANGED vars
    ELSE /\ encryptedTotalYes' = AggregateLoop(Len(participants))[1]
         /\ encryptedTotalNo' = AggregateLoop(Len(participants))[2]
         /\ isAggregated' = TRUE
         /\ currentPhase' = "Aggregating"
         /\ UNCHANGED <<marketType, commitmentDeadline, eventDeadline, targetPrice,
                commitments, participants, aggregateDecryptionRequestId,
                totalYesAmount, totalNoAmount, isSettled, finalOutcome,
                settlementProposedTime, proposedOutcome, isSettlementProposed,
                ownerStake, hasClaimed, claimRequestIds, balance,
                now, requests, priceData, received, committedValue,
                owner, factoryVars>>

\* requestAggregateDecryptionRevert without the onlyInPhase modifier.
requestAggregateDecryptionRevert_NoPhase ==
    IF ~isAggregated THEN "Bets not aggregated yet"
    ELSE ""

requestAggregateDecryptionRevert ==
    IF currentPhase # "Aggregating" THEN "Invalid phase for this operation"
    ELSE IF ~isAggregated THEN "Bets not aggregated yet"
    ELSE ""

\* requestAggregateDecryption without the move to AwaitingDecryption.
requestAggregateDecryption_StayPhase(sender) ==
    IF requestAggregateDecryptionRevert # ""
    THEN UNCHANGED vars
    ELSE /\ Len(requests) < MaxRequests
         /\ aggregateDecryptionRequestId' = NextRequestId
         /\ requests' = Append(requests, "aggregate")
         /\ UNCHANGED <<currentPhase, marketType, commitmentDeadline, eventDeadline,
                targetPrice,
                commitments, participants, encryptedTotalYes, encryptedTotalNo,
                isAggregated, totalYesAmount, totalNoAmount, isSettled, finalOutcome,
                settlementProposedTime, proposedOutcome, isSettlementProposed,
                ownerStake, hasClaimed, claimRequestIds, balance,
                now, priceData, received, committedValue,
                owner, factoryVars>>

requestAggregateDecryption(sender) ==
    IF requestAggregateDecryptionRevert # ""
    THEN UNCHANGED vars
    ELSE /\ Len(requests) < MaxRequests
         /\ aggregateDecryptionRequestId' = NextRequestId
         /\ requests' = Append(requests, "aggregate")
         /\ currentPhase' = "AwaitingDecryption"
         /\ UNCHANGED <<marketType, commitmentDeadline, eventDeadline, targetPrice,
                commitments, participants, encryptedTotalYes, encryptedTotalNo,
                isAggregated, totalYesAmount, totalNoAmount, isSettled, finalOutcome,
                settlementProposedTime, proposedOutcome, isSettlementProposed,
                ownerStake, hasClaimed, claimRequestIds, balance,
                now, priceData, received, committedValue,
                owner, factoryVars>>

\* callbackAggregateDecryptionRevert without the request id check.
callbackAggregateDecryptionRevert_NoId(requestId, proof) ==
    IF ~(currentPhase = "AwaitingDecryption") THEN "Invalid phase"
    ELSE IF ~checkSignatures(requestId, proof) THEN "InvalidKMSSignatures"
    ELSE ""

\* callbackAggregateDecryptionRevert without the phase check.
callbackAggregateDecryptionRevert_NoPhase(requestId, proof) ==
    IF ~(requestId = aggregateDecryptionRequestId) THEN "Invalid request ID"
    ELSE IF ~checkSignatures(requestId, proof) THEN "InvalidKMSSignatures"
    ELSE ""

callbackAggregateDecryptionRevert(requestId, proof) ==
    IF ~(requestId = aggregateDecryptionRequestId) THEN "Invalid request ID"
    ELSE IF ~(currentPhase = "AwaitingDecryption") THEN "Invalid phase"
    ELSE IF ~checkSignatures(requestId, proof) THEN "InvalidKMSSignatures"
    ELSE ""

callbackAggregateDecryption(requestId, proof) ==
    IF callbackAggregateDecryptionRevert(requestId, proof) # ""
    THEN UNCHANGED vars
    ELSE /\ totalYesAmount' = Cleartexts(proof)[1]
         /\ totalNoAmount' = Cleartexts(proof)[2]
         /\ currentPhase' = "Settled"
         /\ UNCHANGED <<marketType, commitmentDeadline, eventDeadline, targetPrice,
                commitments, participants, encryptedTotalYes, encryptedTotalNo,
                aggregateDecryptionRequestId, isAggregated, isSettled, finalOutcome,
                settlementProposedTime, proposedOutcome, isSettlementProposed,
                ownerStake, hasClaimed, claimRequestIds, balance,
                now, requests, priceData, received, committedValue,
                owner, factoryVars>>

\* -------------------------------------------------------- Phase 3: settlement

\* depositOwnerStakeRevert without the onlyInPhase modifier.
depositOwnerStakeRevert_NoPhase(sender, value) ==
    IF ~(sender = owner) THEN "Only owner can call this"
    ELSE IF ~(marketType = "Event") THEN "Only for event markets"
    ELSE IF isSettlementProposed THEN "Settlement already proposed"
    ELSE IF ~(ownerStake = 0) THEN "Stake already deposited"
    ELSE IF ~(value >= (totalYesAmount + totalNoAmount) \div 10) THEN "Insufficient stake"
    ELSE ""

\* depositOwnerStakeRevert without the market type check.
depositOwnerStakeRevert_NoKind(sender, value) ==
    IF ~(sender = owner) THEN "Only owner can call this"
    ELSE IF currentPhase # "Settled" THEN "Invalid phase for this operation"
    ELSE IF isSettlementProposed THEN "Settlement already proposed"
    ELSE IF ~(ownerStake = 0) THEN "Stake already deposited"
    ELSE IF ~(value >= (totalYesAmount + totalNoAmount) \div 10) THEN "Insufficient stake"
    ELSE ""

depositOwnerStakeRevert(sender, value) ==
    IF ~(sender = owner) THEN "Only owner can call this"
    ELSE IF currentPhase # "Settled" THEN "Invalid phase for this operation"
    ELSE IF ~(marketType = "Event") THEN "Only for event markets"
    ELSE IF isSettlementProposed THEN "Settlement already proposed"
    ELSE IF ~(ownerStake = 0) THEN "Stake already deposited"
    ELSE IF ~(value >= (totalYesAmount + totalNoAmount) \div 10) THEN "Insufficient stake"
    ELSE ""

depositOwnerStake(sender, value) ==
    IF depositOwnerStakeRevert(sender, value) # ""
    THEN UNCHANGED vars
    ELSE /\ ownerStake' = value
         /\ balance' = balance + value
         /\ UNCHANGED <<currentPhase, marketType, commitmentDeadline, eventDeadline,
                targetPrice, commitments, participants, encryptedTotalYes,
                encryptedTotalNo, aggregateDecryptionRequestId, isAggregated,
                totalYesAmount, totalNoAmount, isSettled, finalOutcome,
                settlementProposedTime, proposedOutcome, isSettlementProposed,
                hasClaimed, claimRequestIds, now, requests, priceData, received, committedValue,
                owner, factoryVars>>

\* proposeSettlementRevert without the isSettlementProposed check.
proposeSettlementRevert_NoProposed(sender) ==
    IF ~(sender = owner) THEN "Only owner can call this"
    ELSE IF currentPhase # "Settled" THEN "Invalid phase for this operation"
    ELSE IF ~(marketType = "Event") THEN "Only for event markets"
    ELSE IF isSettled THEN "Already settled"
    ELSE IF ~(now >= eventDeadline) THEN "Event not ended yet"
    ELSE IF ~(ownerStake > 0) THEN "Must deposit stake first"
    ELSE ""

proposeSettlementRevert(sender) ==
    IF ~(sender = owner) THEN "Only owner can call this"
    ELSE IF currentPhase # "Settled" THEN "Invalid phase for this operation"
    ELSE IF ~(marketType = "Event") THEN "Only for event markets"
    ELSE IF isSettled THEN "Already settled"
    ELSE IF isSettlementProposed THEN "Settlement already proposed"
    ELSE IF ~(now >= eventDeadline) THEN "Event not ended yet"
    ELSE IF ~(ownerStake > 0) THEN "Must deposit stake first"
    ELSE ""

\* proposeSettlement that already writes finalOutcome.
proposeSettlement_Eager(sender, outcome) ==
    IF proposeSettlementRevert(sender) # ""
    THEN UNCHANGED vars
    ELSE /\ proposedOutcome' = outcome
         /\ finalOutcome' = outcome
         /\ isSettlementProposed' = TRUE
         /\ settlementProposedTime' = now
         /\ UNCHANGED <<currentPhase, marketType, commitmentDeadline, eventDeadline,
                targetPrice, commitments, participants, encryptedTotalYes,
                encryptedTotalNo, aggregateDecryptionRequestId, isAggregated,
                totalYesAmount, totalNoAmount, isSettled, ownerStake,
                hasClaimed, claimRequestIds, balance, now, requests, priceData,
                received, committedValue,
                owner, factoryVars>>

proposeSettlement(sender, outcome) ==
    IF proposeSettlementRevert(sender) # ""
    THEN UNCHANGED vars
    ELSE /\ proposedOutcome' = outcome
         /\ isSettlementProposed' = TRUE
         /\ settlementProposedTime' = now
         /\ UNCHANGED <<currentPhase, marketType, commitmentDeadline, eventDeadline,
                targetPrice, commitments, participants, encryptedTotalYes,
                encryptedTotalNo, aggregateDecryptionRequestId, isAggregated,
                totalYesAmount, totalNoAmount, isSettled, finalOutcome, ownerStake,
                hasClaimed, claimRequestIds, balance, now, requests, priceData,
                received, committedValue,
                owner, factoryVars>>

\* finalizeSettlementRevert without the challenge period check.
finalizeSettlementRevert_NoWindow ==
    IF currentPhase # "Settled" THEN "Invalid phase for this operation"
    ELSE IF ~(marketType = "Event") THEN "Only for event markets"
    ELSE IF ~isSettlementProposed THEN "Settlement not proposed"
    ELSE IF isSettled THEN "Already settled"
    ELSE IF ~(ownerStake <= balance) THEN "Stake return failed"
    ELSE ""

finalizeSettlementRevert ==
    IF currentPhase # "Settled" THEN "Invalid phase for this operation"
    ELSE IF ~(marketType = "Event") THEN "Only for event markets"
    ELSE IF ~isSettlementProposed THEN "Settlement not proposed"
    ELSE IF isSettled THEN "Already settled"
    ELSE IF ~(now >= settlementProposedTime + CHALLENGE_PERIOD) THEN "Challenge period not ended"
    ELSE IF ~(ownerStake <= balance) THEN "Stake return failed"
    ELSE ""

\* finalizeSettlement without the reset of ownerStake.
finalizeSettlement_KeepStake(sender) ==
    IF finalizeSettlementRevert # ""
    THEN UNCHANGED vars
    ELSE /\ finalOutcome' = proposedOutcome
         /\ isSettled' = TRUE
         /\ ownerStake' = ownerStake
         /\ balance' = balance - ownerStake
         /\ UNCHANGED <<currentPhase, marketType, commitmentDeadline, eventDeadline,
                targetPrice, commitments, participants, encryptedTotalYes,
                encryptedTotalNo, aggregateDecryptionRequestId, isAggregated,
                totalYesAmount, totalNoAmount, settlementProposedTime,
                proposedOutcome, isSettlementProposed, hasClaimed, claimRequestIds,
                now, requests, priceData, received, committedValue,
                owner, factoryVars>>

\* finalizeSettlement without the transfer of the stake to the owner.
finalizeSettlement_NoRefund(sender) ==
    IF finalizeSettlementRevert # ""
    THEN UNCHANGED vars
    ELSE /\ finalOutcome' = proposedOutcome
         /\ isSettled' = TRUE
         /\ ownerStake' = 0
         /\ balance' = balance
         /\ UNCHANGED <<currentPhase, marketType, commitmentDeadline, eventDeadline,
                targetPrice, commitments, participants, encryptedTotalYes,
                encryptedTotalNo, aggregateDecryptionRequestId, isAggregated,
                totalYesAmount, totalNoAmount, settlementProposedTime,
                proposedOutcome, isSettlementProposed, hasClaimed, claimRequestIds,
                now, requests, priceData, received, committedValue,
                owner, factoryVars>>

finalizeSettlement(sender) ==
    IF finalizeSettlementRevert # ""
    THEN UNCHANGED vars
    ELSE /\ finalOutcome' = proposedOutcome
         /\ isSettled' = TRUE
         /\ ownerStake' = 0
         /\ balance' = balance - ownerStake
         /\ UNCHANGED <<currentPhase, marketType, commitmentDeadline, eventDeadline,
                targetPrice, commitments, participants, encryptedTotalYes,
                encryptedTotalNo, aggregateDecryptionRequestId, isAggregated,
                totalYesAmount, totalNoAmount, settlementProposedTime,
                proposedOutcome, isSettlementProposed, hasClaimed, claimRequestIds,
                now, requests, priceData, received, committedValue,
                owner, factoryVars>>

challengeSettlementRevert(sender) ==
    IF currentPhase # "Settled" THEN "Invalid phase for this operation"
    ELSE IF ~isSettlementProposed THEN "No settlement to challenge"
    ELSE IF isSettled THEN "Already settled"
    ELSE IF ~(now < settlementProposedTime + CHALLENGE_PERIOD) THEN "Challenge period ended"
    ELSE IF ~commitments[sender].hasCommitted THEN "Must be a participant"
    ELSE ""

\* challengeSettlement that withdraws the proposal.
challengeSettlement_Pause(sender) ==
    IF challengeSettlementRevert(sender) # ""
    THEN UNCHANGED vars
    ELSE /\ isSettlementProposed' = FALSE
         /\ UNCHANGED <<currentPhase, marketType, commitmentDeadline, eventDeadline,
                targetPrice, commitments, participants, encryptedTotalYes,
                encryptedTotalNo, aggregateDecryptionRequestId, isAggregated,
                totalYesAmount, totalNoAmount, isSettled, finalOutcome,
                settlementProposedTime, proposedOutcome, ownerStake, hasClaimed,
                claimRequestIds, balance, now, requests, priceData, received,
                committedValue,
                owner, factoryVars>>

\* challengeSettlement that forfeits the stake to the challenger.
challengeSettlement_Slash(sender) ==
    IF challengeSettlementRevert(sender) # ""
    THEN UNCHANGED vars
    ELSE /\ balance' = balance - ownerStake
         /\ ownerStake' = 0
         /\ UNCHANGED <<finalOutcome, isSettled>>
         /\ UNCHANGED <<currentPhase, marketType, commitmentDeadline, eventDeadline,
                targetPrice, commitments, participants, encryptedTotalYes,
                encryptedTotalNo, aggregateDecryptionRequestId, isAggregated,
                totalYesAmount, totalNoAmount, settlementProposedTime,
                proposedOutcome, isSettlementProposed, hasClaimed, claimRequestIds,
                now, requests, priceData, received, committedValue,
                owner, factoryVars>>

\* A successful challenge only emits SettlementChallenged.
challengeSettlement(sender) ==
    IF challengeSettlementRevert(sender) # ""
    THEN UNCHANGED vars
    ELSE UNCHANGED vars

\* ----------------------------------------------------------------- PriceOracle

\* PriceOracle.getPrice(targetAsset): the revert reason, "" when a price is returned.
\* getPriceRevert without the MAX_PRICE_AGE check.
getPriceRevert_NoAge ==
    IF ~(priceData.timestamp > 0) THEN "Price not available"
    ELSE ""

getPriceRevert ==
    IF ~(priceData.timestamp > 0) THEN "Price not available"
    ELSE IF ~(now - priceData.timestamp <= MAX_PRICE_AGE) THEN "Price too old"
    ELSE ""

\* PriceOracle.updatePrice(targetAsset, price) by an authorized updater; only a
\* Price market has an oracle.
updatePrice(price) ==
    /\ marketType = "Price"
    /\ currentPhase = "Settled"
    /\ ~isSettled
    /\ price > 0
    /\ priceData' = [price |-> price, timestamp |-> now]
    /\ UNCHANGED <<marketVars, now, requests, received, committedValue, factoryVars>>

\* address(priceOracle) != address(0): the constructor stores the oracle of a
\* Price market only, and rejects a zero oracle address there.
priceOracleSet == marketType = "Price"

\* settlePriceMarketRevert without the event deadline check.
settlePriceMarketRevert_NoDeadline ==
    IF ~(marketType = "Price") THEN "Only for price markets"
    ELSE IF isSettled THEN "Already settled"
    ELSE IF ~priceOracleSet THEN "Oracle not set"
    ELSE IF ~(currentPhase = "Settled") THEN "Must complete aggregation and decryption first"
    ELSE IF ~(totalYesAmount > 0 \/ totalNoAmount > 0) THEN "No bets to settle"
    ELSE getPriceRevert

settlePriceMarketRevert ==
    IF ~(marketType = "Price") THEN "Only for price markets"
    ELSE IF isSettled THEN "Already settled"
    ELSE IF ~(now >= eventDeadline) THEN "Event not ended yet"
    ELSE IF ~priceOracleSet THEN "Oracle not set"
    ELSE IF ~(currentPhase = "Settled") THEN "Must complete aggregation and decryption first"
    ELSE IF ~(totalYesAmount > 0 \/ totalNoAmount > 0) THEN "No bets to settle"
    ELSE getPriceRevert

\* settlePriceMarket with the outcome YES only above the target price.
settlePriceMarket_Strict(sender) ==
    IF settlePriceMarketRevert # ""
    THEN UNCHANGED vars
    ELSE /\ finalOutcome' = (priceData.price > targetPrice)
         /\ isSettled' = TRUE
         /\ UNCHANGED <<currentPhase, marketType, commitmentDeadline, eventDeadline,
                targetPrice, commitments, participants, encryptedTotalYes,
                encryptedTotalNo, aggregateDecryptionRequestId, isAggregated,
                totalYesAmount, totalNoAmount, settlementProposedTime,
                proposedOutcome, isSettlementProposed, ownerStake, hasClaimed,
                claimRequestIds, balance, now, requests, priceData, received, committedValue,
                owner, factoryVars>>

settlePriceMarket(sender) ==
    IF settlePriceMarketRevert # ""
    THEN UNCHANGED vars
    ELSE /\ finalOutcome' = (priceData.price >= targetPrice)
         /\ isSettled' = TRUE
         /\ UNCHANGED <<currentPhase, marketType, commitmentDeadline, eventDeadline,
                targetPrice, commitments, participants, encryptedTotalYes,
                encryptedTotalNo, aggregateDecryptionRequestId, isAggregated,
                totalYesAmount, totalNoAmount, settlementProposedTime,
                proposedOutcome, isSettlementProposed, ownerStake, hasClaimed,
                claimRequestIds, balance, now, requests, priceData, received, committedValue,
                owner, factoryVars>>

\* ---------------------------------------------------------------------- claims

\* claimRewardsRevert without the hasClaimed check.
claimRewardsRevert_NoClaimed(sender) ==
    IF currentPhase # "Settled" THEN "Invalid phase for this operation"
    ELSE IF ~isSettled THEN "Market not settled yet"
    ELSE IF ~commitments[sender].hasCommitted THEN "Did not participate"
    ELSE ""

claimRewardsRevert(sender) ==
    IF currentPhase # "Settled" THEN "Invalid phase for this operation"
    ELSE IF ~isSettled THEN "Market not settled yet"
    ELSE IF hasClaimed[sender] THEN "Already claimed rewards"
    ELSE IF ~commitments[sender].hasCommitted THEN "Did not participate"
    ELSE ""

claimRewards(sender) ==
    IF claimRewardsRevert(sender) # ""
    THEN UNCHANGED vars
    ELSE /\ Len(requests) < MaxRequests
         /\ claimRequestIds' = [claimRequestIds EXCEPT ![sender] = NextRequestId]
         /\ requests' = Append(requests, sender)
         /\ UNCHANGED <<currentPhase, marketType, commitmentDeadline, eventDeadline,
                targetPrice, commitments, participants, encryptedTotalYes,
                encryptedTotalNo, aggregateDecryptionRequestId, isAggregated,
                totalYesAmount, totalNoAmount, isSettled, finalOutcome,
                settlementProposedTime, proposedOutcome, isSettlementProposed,
                ownerStake, hasClaimed, balance, now, priceData, received, committedValue,
                owner, factoryVars>>

\* The scan of callbackClaimRewards: the first participant whose stored claim
\* request id is requestId, or "none" (address(0)).
RECURSIVE FindUser(_, _)
FindUser(i, requestId) ==
    IF i > Len(participants) THEN "none"
    ELSE IF claimRequestIds[participants[i]] = requestId THEN participants[i]
    ELSE FindUser(i + 1, requestId)

\* won, as callbackClaimRewards computes it from the decoded prediction.
Won(prediction) == (prediction = 1 /\ finalOutcome) \/ (prediction = 0 /\ ~finalOutcome)

totalWinningAmount == IF finalOutcome THEN totalYesAmount ELSE totalNoAmount

\* payout of callbackClaimRewards for the decoded amount (totalWinningAmount > 0).
Payout(amount) == (amount * balance) \div totalWinningAmount

\* callbackClaimRewardsRevert without the won check.
callbackClaimRewardsRevert_NoWon(requestId, proof) ==
    IF ~(currentPhase = "Settled") THEN "Invalid phase"
    ELSE IF ~isSettled THEN "Market not settled"
    ELSE IF ~checkSignatures(requestId, proof) THEN "InvalidKMSSignatures"
    ELSE IF FindUser(1, requestId) = "none" THEN "User not found for request"
    ELSE IF hasClaimed[FindUser(1, requestId)] THEN "Already claimed"
    ELSE IF ~(Cleartexts(proof)[1] < Mod8) THEN "abi.decode: uint8 out of range"
    ELSE IF totalWinningAmount = 0 THEN "Panic: division by zero"
    ELSE IF ~(Payout(Cleartexts(proof)[2]) <= balance) THEN "ETH transfer failed"
    ELSE ""

\* callbackClaimRewardsRevert without the hasClaimed check.
callbackClaimRewardsRevert_NoClaimed(requestId, proof) ==
    IF ~(currentPhase = "Settled") THEN "Invalid phase"
    ELSE IF ~isSettled THEN "Market not settled"
    ELSE IF ~checkSignatures(requestId, proof) THEN "InvalidKMSSignatures"
    ELSE IF FindUser(1, requestId) = "none" THEN "User not found for request"
    ELSE IF ~(Cleartexts(proof)[1] < Mod8) THEN "abi.decode: uint8 out of range"
    ELSE IF ~Won(Cleartexts(proof)[1]) THEN "You lost"
    ELSE IF totalWinningAmount = 0 THEN "Panic: division by zero"
    ELSE IF ~(Payout(Cleartexts(proof)[2]) <= balance) THEN "ETH transfer failed"
    ELSE ""

callbackClaimRewardsRevert(requestId, proof) ==
    IF ~(currentPhase = "Settled") THEN "Invalid phase"
    ELSE IF ~isSettled THEN "Market not settled"
    ELSE IF ~checkSignatures(requestId, proof) THEN "InvalidKMSSignatures"
    ELSE IF FindUser(1, requestId) = "none" THEN "User not found for request"
    ELSE IF hasClaimed[FindUser(1, requestId)] THEN "Already claimed"
    ELSE IF ~(Cleartexts(proof)[1] < Mod8) THEN "abi.decode: uint8 out of range"
    ELSE IF ~Won(Cleartexts(proof)[1]) THEN "You lost"
    ELSE IF totalWinningAmount = 0 THEN "Panic: division by zero"
    ELSE IF ~(Payout(Cleartexts(proof)[2]) <= balance) THEN "ETH transfer failed"
    ELSE ""

callbackClaimRewards(requestId, proof) ==
    IF callbackClaimRewardsRevert(requestId, proof) # ""
    THEN UNCHANGED vars
    ELSE LET user == FindUser(1, requestId)
             payout == Payout(Cleartexts(proof)[2])
         IN  /\ hasClaimed' = [hasClaimed EXCEPT ![user] = TRUE]
             /\ balance' = balance - payout
             /\ received' = [received EXCEPT ![user] = @ + payout]
             /\ UNCHANGED <<currentPhase, marketType, commitmentDeadline, eventDeadline,
                    targetPrice, commitments, participants, encryptedTotalYes,
                    encryptedTotalNo, aggregateDecryptionRequestId, isAggregated,
                    totalYesAmount, totalNoAmount, isSettled, finalOutcome,
                    settlementProposedTime, proposedOutcome, isSettlementProposed,
                    ownerStake, claimRequestIds, now, requests, priceData,
                    committedValue,
                owner, factoryVars>>

\* ------------------------------------------------------------------- clock

\* The clock is followed until the market is settled: no handler reads
\* block.timestamp past that point without failing on isSettled first.
Tick ==
    \E t \in Times :
        /\ ~isSettled
        /\ t > now
        /\ now' = t
        /\ UNCHANGED <<marketVars, requests, priceData, received, committedValue, factoryVars>>

Next ==
    \/ \E sender \in Addrs, value \in Values, proofsOk \in BOOLEAN :
          commitPrediction(sender, value, proofsOk)
    \/ \E sender \in Addrs : aggregateBets(sender)
    \/ \E sender \in Addrs : requestAggregateDecryption(sender)
    \/ \E requestId \in RequestIds, proof \in ProofSubjects :
          callbackAggregateDecryption(requestId, proof)
    \/ \E sender \in Addrs, value \in StakeValues : depositOwnerStake(sender, value)
    \/ \E sender \in Addrs, outcome \in BOOLEAN : proposeSettlement(sender, outcome)
    \/ \E sender \in Addrs : finalizeSettlement(sender)
    \/ \E sender \in Addrs : challengeSettlement(sender)
    \/ \E sender \in Addrs : settlePriceMarket(sender)
    \/ \E sender \in Addrs : claimRewards(sender)
    \/ \E requestId \in RequestIds, proof \in ProofSubjects :
          callbackClaimRewards(requestId, proof)
    \/ \E price \in Prices : updatePrice(price)
    \/ Tick

Spec == Init /\ [][Next]_vars

\* ------------------------------------------------------------- MarketFactory

\* Number of markets the factory creates in one run.
MaxMarkets == 1

\* address(this) of the MarketFactory contract.  The factory has no function
\* that calls a market, so it is never the sender of a call to one.
factoryAddress == "factory"

\* Inputs of createMarket.
DescriptionLengths == {0, 1}

CommitmentDurations == {0, 1}

FactoryTargetPrices == {0} \cup TargetPrices

\* The requires of the BlindOracle constructor.
constructorRevert(mType, priceOracleGiven, tPrice) ==
    IF mType = "Price" /\ ~priceOracleGiven THEN "Invalid oracle address"
    ELSE IF mType = "Price" /\ ~(tPrice > 0) THEN "Invalid target price"
    ELSE ""

\* The BlindOracle constructor run by deployer on zero-initialised storage.
constructor(deployer, mType, commitmentDuration, eventDuration, tPrice) ==
    /\ owner' = deployer
    /\ currentPhase' = "BlindCommitment"
    /\ marketType' = mType
    /\ commitmentDeadline' = now + commitmentDuration
    /\ eventDeadline' = commitmentDeadline' + eventDuration
    /\ targetPrice' = (IF mType = "Price" THEN tPrice ELSE 0)
    /\ UNCHANGED <<commitments, participants, encryptedTotalYes, encryptedTotalNo,
           aggregateDecryptionRequestId, isAggregated, totalYesAmount,
           totalNoAmount, isSettled, finalOutcome, settlementProposedTime,
           proposedOutcome, isSettlementProposed, ownerStake, hasClaimed,
           claimRequestIds, balance>>

createMarketRevert(mType, descriptionLength, commitmentDuration, eventDuration, priceOracleGiven, tPrice) ==
    IF ~(descriptionLength > 0) THEN "Description cannot be empty"
    ELSE IF ~(commitmentDuration > 0) THEN "Commitment duration must be positive"
    ELSE IF ~(eventDuration > 0) THEN "Event duration must be positive"
    ELSE IF mType = "Price" /\ ~priceOracleGiven THEN "Price oracle required for price markets"
    ELSE IF mType = "Price" /\ ~(tPrice > 0) THEN "Target price must be positive"
    ELSE constructorRevert(mType, priceOracleGiven, tPrice)

\* Market addresses are numbered in the order of creation.  The market
\* variables are those of the first market created; a later market is another
\* contract, with storage of its own.
createMarket(sender, mType, descriptionLength, commitmentDuration, eventDuration, priceOracleGiven, tPrice) ==
    IF createMarketRevert(mType, descriptionLength, commitmentDuration, eventDuration,
                          priceOracleGiven, tPrice) # ""
    THEN UNCHANGED vars
    ELSE LET marketAddress == Len(markets) + 1
         IN  /\ Len(markets) < MaxMarkets
             /\ IF markets = <<>>
                THEN constructor(factoryAddress, mType, commitmentDuration,
                                 eventDuration, tPrice)
                ELSE UNCHANGED marketVars
             /\ marketInfo' = Append(marketInfo,
                    [marketAddress |-> marketAddress,
                     creator |-> sender,
                     commitmentDeadline |-> now + commitmentDuration,
                     eventDeadline |-> now + eventDuration,
                     createdAt |-> now,
                     isActive |-> TRUE,
                     marketType |-> mType])
             /\ markets' = Append(markets, marketAddress)
             /\ creatorMarkets' = [creatorMarkets EXCEPT ![sender] = Append(@, marketAddress)]
             /\ UNCHANGED <<now, requests, priceData, received, committedValue>>

\* The factory after its deployment: no market yet, the storage the first
\* market will get still zero.
FactoryInit ==
    /\ now = 1
    /\ owner = "none"
    /\ marketType = "Event"
    /\ currentPhase = "BlindCommitment"
    /\ commitmentDeadline = 0
    /\ eventDeadline = 0
    /\ targetPrice = 0
    /\ commitments = [a \in Addrs |-> NoCommitment]
    /\ participants = <<>>
    /\ encryptedTotalYes = 0
    /\ encryptedTotalNo = 0
    /\ aggregateDecryptionRequestId = 0
    /\ isAggregated = FALSE
    /\ totalYesAmount = 0
    /\ totalNoAmount = 0
    /\ isSettled = FALSE
    /\ finalOutcome = FALSE
    /\ settlementProposedTime = 0
    /\ proposedOutcome = FALSE
    /\ isSettlementProposed = FALSE
    /\ ownerStake = 0
    /\ hasClaimed = [a \in Addrs |-> FALSE]
    /\ claimRequestIds = [a \in Addrs |-> 0]
    /\ balance = 0
    /\ requests = <<>>
    /\ priceData = [price |-> 1, timestamp |-> now]
    /\ received = [a \in Addrs |-> 0]
    /\ committedValue = 0
    /\ markets = <<>>
    /\ creatorMarkets = [a \in Addrs |-> <<>>]
    /\ marketInfo = <<>>

\* A market takes calls once it is deployed.
FactoryNext ==
    \/ \E sender \in Addrs, mType \in MarketTypes,
          descriptionLength \in DescriptionLengths,
          commitmentDuration \in CommitmentDurations,
          eventDuration \in EventDurations,
          priceOracleGiven \in BOOLEAN, tPrice \in FactoryTargetPrices :
          createMarket(sender, mType, descriptionLength, commitmentDuration,
                       eventDuration, priceOracleGiven, tPrice)
    \/ /\ markets # <<>>
       /\ \E sender \in Addrs, value \in Values, proofsOk \in BOOLEAN :
             commitPrediction(sender, value, proofsOk)
    \/ markets # <<>> /\ \E sender \in Addrs : aggregateBets(sender)
    \/ markets # <<>> /\ \E sender \in Addrs : requestAggregateDecryption(sender)
    \/ /\ markets # <<>>
       /\ \E requestId \in RequestIds, proof \in ProofSubjects :
             callbackAggregateDecryption(requestId, proof)
    \/ /\ markets # <<>>
       /\ \E sender \in Addrs, value \in StakeValues : depositOwnerStake(sender, value)
    \/ /\ markets # <<>>
       /\ \E sender \in Addrs, outcome \in BOOLEAN : proposeSettlement(sender, outcome)
    \/ markets # <<>> /\ \E sender \in Addrs : finalizeSettlement(sender)
    \/ markets # <<>> /\ \E sender \in Addrs : challengeSettlement(sender)
    \/ markets # <<>> /\ \E sender \in Addrs : settlePriceMarket(sender)
    \/ markets # <<>> /\ \E sender \in Addrs : claimRewards(sender)
    \/ /\ markets # <<>>
       /\ \E requestId \in RequestIds, proof \in ProofSubjects :
             callbackClaimRewards(requestId, proof)
    \/ markets # <<>> /\ \E price \in Prices : updatePrice(price)
    \/ markets # <<>> /\ Tick

FactorySpec == FactoryInit /\ [][FactoryNext]_vars


\* ===================================================================== claims

\* A step in which the named function was called and did not revert.
commitSucceeds ==
    \E sender \in Addrs, value \in Values, proofsOk \in BOOLEAN :
        /\ commitPredictionRevert(sender, value, proofsOk) = ""
        /\ commitPrediction(sender, value, proofsOk)

aggregateSucceeds ==
    \E sender \in Addrs : aggregateBetsRevert = "" /\ aggregateBets(sender)

finalizeSucceeds ==
    \E sender \in Addrs : finalizeSettlementRevert = "" /\ finalizeSettlement(sender)

settlePriceSucceeds ==
    \E sender \in Addrs : settlePriceMarketRevert = "" /\ settlePriceMarket(sender)

\* C1: the phase never goes down and never advances by more than one step.
PhaseMonotone ==
    [][\/ PhaseOrd(currentPhase') = PhaseOrd(currentPhase)
       \/ PhaseOrd(currentPhase') = PhaseOrd(currentPhase) + 1]_vars

PhaseMonotone_Witness == currentPhase = "Settled"

\* C2: a call of a state-mutating entry point goes through only in the phase
\* the entry point requires.
PhaseGuards ==
    /\ \A sender \in Addrs, value \in Values, proofsOk \in BOOLEAN :
          commitPredictionRevert(sender, value, proofsOk) = "" => currentPhase = "BlindCommitment"
    /\ aggregateBetsRevert = "" => currentPhase = "BlindCommitment"
    /\ requestAggregateDecryptionRevert = "" => currentPhase = "Aggregating"
    /\ \A requestId \in RequestIds, proof \in ProofSubjects :
          callbackAggregateDecryptionRevert(requestId, proof) = ""
              => currentPhase = "AwaitingDecryption"
    /\ \A sender \in Addrs, value \in StakeValues :
          depositOwnerStakeRevert(sender, value) = "" => currentPhase = "Settled"
    /\ \A sender \in Addrs :
          /\ proposeSettlementRevert(sender) = "" => currentPhase = "Settled"
          /\ challengeSettlementRevert(sender) = "" => currentPhase = "Settled"
          /\ claimRewardsRevert(sender) = "" => currentPhase = "Settled"
    /\ finalizeSettlementRevert = "" => currentPhase = "Settled"
    /\ settlePriceMarketRevert = "" => currentPhase = "Settled"
    /\ \A requestId \in RequestIds, proof \in ProofSubjects :
          callbackClaimRewardsRevert(requestId, proof) = "" => currentPhase = "Settled"

PhaseGuards_Witness == \E a \in Addrs : hasClaimed[a]

\* The committed amounts of participants[1..n] whose prediction is side.
RECURSIVE SumSide(_, _)
SumSide(n, side) ==
    IF n = 0 THEN 0
    ELSE SumSide(n - 1, side)
         + (IF commitments[participants[n]].encryptedPrediction = side
            THEN commitments[participants[n]].encryptedAmount ELSE 0)

AllBinary ==
    \A i \in 1 .. Len(participants) :
        commitments[participants[i]].encryptedPrediction \in {0, 1}

\* C3: once the totals are revealed, with every prediction 0 or 1,
\* totalYesAmount is the sum of the amounts committed with prediction 1,
\* totalNoAmount the sum of those committed with prediction 0, and the two add
\* up to the sum of all committed amounts.
Conservation ==
    (currentPhase = "Settled" /\ AllBinary) =>
        /\ totalYesAmount = SumSide(Len(participants), 1)
        /\ totalNoAmount = SumSide(Len(participants), 0)
        /\ totalYesAmount + totalNoAmount
             = SumSide(Len(participants), 1) + SumSide(Len(participants), 0)

Occurrences(seq, a) == Cardinality({i \in 1 .. Len(seq) : seq[i] = a})

\* C4 as stated: whatever the time and the phase, a commit from an address that
\* has committed fails with "Already committed".
AlreadyCommittedAlways ==
    \A sender \in Addrs, value \in Values, proofsOk \in BOOLEAN :
        commitments[sender].hasCommitted
            => commitPredictionRevert(sender, value, proofsOk) = "Already committed"

\* C4, amended: a commit from an address that has committed always fails, with
\* "Already committed" while the phase is BlindCommitment and the deadline has
\* not passed (otherwise the phase or the deadline check fails first), and its
\* stored commitment and its single entry in participants never change.
AtMostOnceCommit ==
    /\ [](\A sender \in Addrs, value \in Values, proofsOk \in BOOLEAN :
            commitments[sender].hasCommitted =>
                /\ commitPredictionRevert(sender, value, proofsOk) # ""
                /\ (currentPhase = "BlindCommitment" /\ now < commitmentDeadline)
                     => commitPredictionRevert(sender, value, proofsOk) = "Already committed")
    /\ [][\A sender \in Addrs :
            commitments[sender].hasCommitted =>
                /\ commitments'[sender] = commitments[sender]
                /\ Occurrences(participants', sender) = 1]_vars

AtMostOnceCommit_Witness ==
    \E a \in Addrs :
        /\ commitments[a].hasCommitted
        /\ currentPhase = "BlindCommitment"
        /\ now >= commitmentDeadline

\* C5: a callbackAggregateDecryption call whose request id is not the stored
\* one fails on the request id check, whatever proof comes with it.
RequestIdBinding ==
    \A requestId \in RequestIds, proof \in ProofSubjects :
        requestId # aggregateDecryptionRequestId
            => callbackAggregateDecryptionRevert(requestId, proof) = "Invalid request ID"

\* A state in which another request id has a proof that verifies.
RequestIdBinding_Witness ==
    \E requestId \in RequestIds, proof \in ProofSubjects :
        /\ requestId # aggregateDecryptionRequestId
        /\ checkSignatures(requestId, proof)

\* C6 as stated: after the callback has succeeded, every later call of it is
\* rejected by the request id check.
LaterCallbackFailsOnId ==
    currentPhase = "Settled" =>
        \A requestId \in RequestIds, proof \in ProofSubjects :
            callbackAggregateDecryptionRevert(requestId, proof) = "Invalid request ID"

\* C6, amended: after the callback has succeeded, every later call of it is
\* rejected, by the request id check when the id is not the stored one and by
\* the phase check ("Invalid phase") when it is (the stored id is never
\* cleared), and the totals and the phase never change again.
CallbackAtMostOnce ==
    /\ [](currentPhase = "Settled" =>
            \A requestId \in RequestIds, proof \in ProofSubjects :
                callbackAggregateDecryptionRevert(requestId, proof)
                    = (IF requestId = aggregateDecryptionRequestId
                       THEN "Invalid phase" ELSE "Invalid request ID"))
    /\ [][currentPhase = "Settled" =>
            /\ totalYesAmount' = totalYesAmount
            /\ totalNoAmount' = totalNoAmount
            /\ currentPhase' = currentPhase]_vars

CallbackAtMostOnce_Witness ==
    /\ currentPhase = "Settled"
    /\ checkSignatures(aggregateDecryptionRequestId, "aggregate")
    /\ totalYesAmount + totalNoAmount > 0

\* C7: aggregateBets goes through exactly when the phase is BlindCommitment,
\* the deadline has passed and there is a participant; it then sets
\* isAggregated and moves to Aggregating; once it has, it fails.
AggregationGating ==
    /\ [](/\ aggregateBetsRevert = ""
             <=> (/\ currentPhase = "BlindCommitment"
                  /\ now >= commitmentDeadline
                  /\ Len(participants) >= 1)
          /\ isAggregated => aggregateBetsRevert # ""
          /\ isAggregated <=> currentPhase # "BlindCommitment")
    /\ [][aggregateSucceeds =>
            /\ ~isAggregated
            /\ isAggregated'
            /\ currentPhase' = "Aggregating"]_vars

AggregationGating_Witness == isAggregated /\ currentPhase = "Aggregating"

\* C8: an Event market is settled by finalizeSettlement only and a Price
\* market by settlePriceMarket only; the functions of the other path fail.
SettlementExclusivity ==
    /\ [](marketType = "Event" => settlePriceMarketRevert # "")
    /\ [](marketType = "Price" =>
            /\ finalizeSettlementRevert # ""
            /\ \A sender \in Addrs :
                 /\ proposeSettlementRevert(sender) # ""
                 /\ \A value \in StakeValues : depositOwnerStakeRevert(sender, value) # "")
    /\ [][(~isSettled /\ isSettled') =>
            IF marketType = "Event" THEN finalizeSucceeds ELSE settlePriceSucceeds]_vars

SettlementExclusivity_Witness == isSettled /\ marketType = "Event"

\* C9: finalizeSettlement fails before settlementProposedTime + 24h,
\* challengeSettlement fails from then on and once the market is settled, so
\* the two are never both accepted in one state.
ChallengeWindow ==
    /\ now < settlementProposedTime + CHALLENGE_PERIOD => finalizeSettlementRevert # ""
    /\ \A sender \in Addrs :
          (now >= settlementProposedTime + CHALLENGE_PERIOD \/ isSettled)
              => challengeSettlementRevert(sender) # ""
    /\ ~(finalizeSettlementRevert = "" /\ \E sender \in Addrs : challengeSettlementRevert(sender) = "")

ChallengeWindow_Witness ==
    /\ isSettlementProposed
    /\ isSettled
    /\ now = settlementProposedTime + CHALLENGE_PERIOD

\* C10: callbackClaimRewards never sends funds to a participant whose
\* committed prediction does not match finalOutcome.
NoPayoutToLoser ==
    \A a \in Addrs :
        received[a] > 0 => Won(commitments[a].encryptedPrediction)

\* A step in which callbackClaimRewards went through and paid address a.
claimCallbackPays(a) ==
    \E requestId \in RequestIds, proof \in ProofSubjects :
        /\ callbackClaimRewardsRevert(requestId, proof) = ""
        /\ FindUser(1, requestId) = a
        /\ callbackClaimRewards(requestId, proof)

\* C11: an address is paid by callbackClaimRewards at most once: a payout goes
\* to an address whose hasClaimed flag is unset and sets it, the flag is never
\* unset again, and once it is set every callback that resolves to the address
\* fails and the address receives nothing more.
AtMostOnePayout ==
    /\ [](\A requestId \in RequestIds, proof \in ProofSubjects :
            (FindUser(1, requestId) # "none" /\ hasClaimed[FindUser(1, requestId)])
                => callbackClaimRewardsRevert(requestId, proof) # "")
    /\ [][\A a \in Addrs :
            /\ claimCallbackPays(a) => (~hasClaimed[a] /\ hasClaimed'[a])
            /\ hasClaimed[a] => (hasClaimed'[a] /\ received'[a] = received[a])]_vars

\* The address has been paid while two decryption requests of its own are
\* outstanding, the later of them with a proof that still verifies.
AtMostOnePayout_Witness ==
    \E a \in Addrs :
        /\ hasClaimed[a]
        /\ received[a] > 0
        /\ Occurrences(requests, a) = 2
        /\ checkSignatures(claimRequestIds[a], a)

\* C12: in an Event market every commitPrediction of the owner fails, with
\* "Owner cannot participate in event markets" whenever the phase, deadline
\* and value checks pass, and the owner is never a participant; in a Price
\* market the owner's commit goes through under the ordinary preconditions.
OwnerExclusion ==
    /\ marketType = "Event" =>
          /\ ~commitments[owner].hasCommitted
          /\ Occurrences(participants, owner) = 0
          /\ \A value \in Values, proofsOk \in BOOLEAN :
                /\ commitPredictionRevert(owner, value, proofsOk) # ""
                /\ (currentPhase = "BlindCommitment" /\ now < commitmentDeadline /\ value > 0)
                     => commitPredictionRevert(owner, value, proofsOk)
                          = "Owner cannot participate in event markets"
    /\ marketType = "Price" =>
          \A value \in Values :
              (/\ currentPhase = "BlindCommitment"
               /\ now < commitmentDeadline
               /\ ~commitments[owner].hasCommitted
               /\ value > 0)
                  => commitPredictionRevert(owner, value, TRUE) = ""

OwnerExclusion_Witness ==
    /\ marketType = "Price"
    /\ commitments[owner].hasCommitted
    /\ Occurrences(participants, owner) = 1

\* The wei callbackClaimRewards has sent to the addresses of S.
RECURSIVE SumReceived(_)
SumReceived(S) ==
    IF S = {} THEN 0
    ELSE LET a == CHOOSE x \in S : TRUE
         IN  received[a] + SumReceived(S \ {a})

\* C13 as stated: the balance is the committed value minus the claims paid
\* minus the stake in escrow, and is never negative.
FundsMinusStake ==
    /\ balance = committedValue - SumReceived(Addrs) - ownerStake
    /\ balance >= 0

\* C13, amended: the balance is the committed value minus the claims paid
\* plus the stake in escrow (the contract holds the stake), and is never
\* negative.
FundsAccounting ==
    /\ balance = committedValue - SumReceived(Addrs) + ownerStake
    /\ balance >= 0

FundsAccounting_Witness ==
    /\ ownerStake > 0
    /\ committedValue > 0
    /\ balance = committedValue + ownerStake

depositSucceeds ==
    \E sender \in Addrs, value \in StakeValues :
        /\ depositOwnerStakeRevert(sender, value) = ""
        /\ depositOwnerStake(sender, value)

claimCallbackSucceeds == \E a \in Addrs : claimCallbackPays(a)

\* C14 as stated: the balance goes up in a successful commitPrediction only,
\* and down in a successful finalizeSettlement or callbackClaimRewards only.
BalanceUpByCommitOnly ==
    [][/\ balance' > balance => commitSucceeds
       /\ balance' < balance => (finalizeSucceeds \/ claimCallbackSucceeds)]_vars

\* C14, amended: the balance goes up in a successful commitPrediction or
\* depositOwnerStake only (by the value attached), and down in a successful
\* finalizeSettlement or callbackClaimRewards only.
BalanceFrame ==
    [][/\ balance' > balance => (commitSucceeds \/ depositSucceeds)
       /\ balance' < balance => (finalizeSucceeds \/ claimCallbackSucceeds)
       /\ (depositSucceeds /\ ownerStake' > 0) => balance' = balance + ownerStake']_vars

\* An Event market went through deposit, refund and a payout.
BalanceFrame_Witness ==
    /\ marketType = "Event"
    /\ isSettled
    /\ committedValue > 0
    /\ balance < committedValue

\* A step of a call that a require of the called function rejects.
FailedCall ==
    \/ \E sender \in Addrs, value \in Values, proofsOk \in BOOLEAN :
          commitPredictionRevert(sender, value, proofsOk) # ""
              /\ commitPrediction(sender, value, proofsOk)
    \/ \E sender \in Addrs : aggregateBetsRevert # "" /\ aggregateBets(sender)
    \/ \E sender \in Addrs :
          requestAggregateDecryptionRevert # "" /\ requestAggregateDecryption(sender)
    \/ \E requestId \in RequestIds, proof \in ProofSubjects :
          callbackAggregateDecryptionRevert(requestId, proof) # ""
              /\ callbackAggregateDecryption(requestId, proof)
    \/ \E sender \in Addrs, value \in StakeValues :
          depositOwnerStakeRevert(sender, value) # "" /\ depositOwnerStake(sender, value)
    \/ \E sender \in Addrs, outcome \in BOOLEAN :
          proposeSettlementRevert(sender) # "" /\ proposeSettlement(sender, outcome)
    \/ \E sender \in Addrs : finalizeSettlementRevert # "" /\ finalizeSettlement(sender)
    \/ \E sender \in Addrs :
          challengeSettlementRevert(sender) # "" /\ challengeSettlement(sender)
    \/ \E sender \in Addrs : settlePriceMarketRevert # "" /\ settlePriceMarket(sender)
    \/ \E sender \in Addrs : claimRewardsRevert(sender) # "" /\ claimRewards(sender)
    \/ \E requestId \in RequestIds, proof \in ProofSubjects :
          callbackClaimRewardsRevert(requestId, proof) # ""
              /\ callbackClaimRewards(requestId, proof)

\* C15: a call that fails a precondition changes no variable and moves no
\* funds; a commitPrediction with value 0 always fails, with "Must send ETH
\* with commitment" when the sender has not committed, the phase is
\* BlindCommitment and the deadline has not passed.
FailureLeavesState ==
    /\ [](\A sender \in Addrs, proofsOk \in BOOLEAN :
            /\ commitPredictionRevert(sender, 0, proofsOk) # ""
            /\ (/\ currentPhase = "BlindCommitment"
                /\ now < commitmentDeadline
                /\ ~commitments[sender].hasCommitted)
                 => commitPredictionRevert(sender, 0, proofsOk)
                      = "Must send ETH with commitment")
    /\ [][FailedCall => UNCHANGED vars]_vars

\* A commit with value 0 from a new address reaches the value check while
\* the market already holds a commitment.
FailureLeavesState_Witness ==
    /\ Len(participants) = 1
    /\ balance > 0
    /\ \E sender \in Addrs :
          commitPredictionRevert(sender, 0, TRUE) = "Must send ETH with commitment"

\* C16: a settlePriceMarket call that goes through happens on a Price market
\* in phase Settled at or after eventDeadline, with a nonzero total and the
\* market not yet settled; it sets isSettled and finalOutcome = (price of the
\* feed >= targetPrice) in that one step, with no proposal or stake recorded
\* before or after it; and the caller plays no part in it.
PriceSettlement ==
    [][settlePriceSucceeds =>
          /\ marketType = "Price"
          /\ now >= eventDeadline
          /\ currentPhase = "Settled"
          /\ (totalYesAmount > 0 \/ totalNoAmount > 0)
          /\ ~isSettled
          /\ getPriceRevert = ""
          /\ isSettled'
          /\ finalOutcome' = (priceData.price >= targetPrice)
          /\ ~isSettlementProposed /\ ~isSettlementProposed'
          /\ ownerStake = 0 /\ ownerStake' = 0
          /\ settlementProposedTime' = 0
          /\ \A sender \in Addrs : settlePriceMarket(sender)]_vars

\* Settled YES at a price equal to the target.
PriceSettlement_Witness ==
    /\ marketType = "Price"
    /\ isSettled
    /\ finalOutcome
    /\ priceData.price = targetPrice

\* C17: on a Price market settlePriceMarket fails with "Event not ended yet"
\* before eventDeadline in whatever phase, and with "Must complete aggregation
\* and decryption first" at or after eventDeadline while the phase is not
\* Settled; the market is not settled in either case.
PriceSettlementTooEarly ==
    marketType = "Price" =>
        /\ now < eventDeadline =>
              (settlePriceMarketRevert = "Event not ended yet" /\ ~isSettled)
        /\ (now >= eventDeadline /\ currentPhase # "Settled") =>
              /\ settlePriceMarketRevert = "Must complete aggregation and decryption first"
              /\ ~isSettled

\* The totals are revealed before the event deadline.
PriceSettlementTooEarly_Witness ==
    /\ marketType = "Price"
    /\ now < eventDeadline
    /\ currentPhase = "Settled"
    /\ totalYesAmount + totalNoAmount > 0

\* C18: a stake in escrow is at least 10% of the revealed pool, 10 * ownerStake
\* >= totalYesAmount + totalNoAmount, and depositOwnerStake rejects every
\* value below 10% of the pool.
StakeAtLeastTenPercent ==
    /\ ownerStake > 0 => 10 * ownerStake >= totalYesAmount + totalNoAmount
    /\ \A sender \in Addrs, value \in StakeValues :
          10 * value < totalYesAmount + totalNoAmount
              => depositOwnerStakeRevert(sender, value) # ""

\* C19: a finalizeSettlement call that goes through, from whatever caller,
\* happens with a proposal recorded, the market not settled and now >=
\* settlementProposedTime + 24h; it sets finalOutcome to proposedOutcome and
\* isSettled, resets ownerStake to 0 and takes exactly the escrowed stake out
\* of the balance, which leaves the value the participants committed.
FinalizeEffect ==
    [][finalizeSucceeds =>
          /\ isSettlementProposed
          /\ ~isSettled
          /\ now >= settlementProposedTime + CHALLENGE_PERIOD
          /\ finalOutcome' = proposedOutcome
          /\ isSettled'
          /\ ownerStake > 0
          /\ ownerStake' = 0
          /\ balance' = balance - ownerStake
          /\ balance' = committedValue
          /\ \A sender \in Addrs : finalizeSettlement(sender)]_vars

\* Finalized YES with the committed pool left in the market.
FinalizeEffect_Witness ==
    /\ marketType = "Event"
    /\ isSettled
    /\ finalOutcome
    /\ proposedOutcome
    /\ ownerStake = 0
    /\ balance = committedValue
    /\ balance > 0

\* C20: a callbackClaimRewards call that goes through sends the participant
\* it resolves to exactly floor(amount * B / W), with amount the amount that
\* participant committed, B the balance before the transfer and W the
\* revealed total of the winning side.
PayoutFormula ==
    [][\A a \in Addrs :
          claimCallbackPays(a) =>
              /\ totalWinningAmount > 0
              /\ received'[a] - received[a]
                   = (commitments[a].encryptedAmount * balance) \div totalWinningAmount
              /\ balance' = balance - (received'[a] - received[a])]_vars

\* Every payout so far was made on a decryption request of the paid address
\* (request 0 is the aggregate request, so a nonzero stored id is one that
\* claimRewards issued).
PaidOnOwnRequests == \A a \in Addrs : hasClaimed[a] => claimRequestIds[a] # 0

\* C21: a winner paid on its own claim has received amount * totalPool /
\* totalWinningAmount, totalPool being the whole of the committed funds, so
\* two winners who committed equal amounts have received equal payouts
\* whatever the order of their claims.
ProportionalPayout ==
    PaidOnOwnRequests =>
        /\ \A a \in Addrs :
              (hasClaimed[a] /\ totalWinningAmount > 0) =>
                  received[a] = (commitments[a].encryptedAmount * committedValue)
                                    \div totalWinningAmount
        /\ \A a, b \in Addrs :
              (/\ hasClaimed[a]
               /\ hasClaimed[b]
               /\ commitments[a].encryptedAmount = commitments[b].encryptedAmount)
                  => received[a] = received[b]

aggregateCallbackSucceeds ==
    \E requestId \in RequestIds, proof \in ProofSubjects :
        /\ callbackAggregateDecryptionRevert(requestId, proof) = ""
        /\ callbackAggregateDecryption(requestId, proof)

\* C22: the totals are zero until the aggregate-decryption callback goes
\* through; a step that changes a total or moves the phase to Settled is that
\* callback going through in phase AwaitingDecryption; once the phase is
\* Settled the totals never change and the callback never goes through again.
TotalsWrittenOnce ==
    /\ [](currentPhase # "Settled" => (totalYesAmount = 0 /\ totalNoAmount = 0))
    /\ [](currentPhase = "Settled" =>
            \A requestId \in RequestIds, proof \in ProofSubjects :
                callbackAggregateDecryptionRevert(requestId, proof) # "")
    /\ [][(\/ totalYesAmount' # totalYesAmount
           \/ totalNoAmount' # totalNoAmount
           \/ (currentPhase # "Settled" /\ currentPhase' = "Settled"))
            => /\ aggregateCallbackSucceeds
               /\ currentPhase = "AwaitingDecryption"
               /\ currentPhase' = "Settled"
               /\ totalYesAmount' = encryptedTotalYes
               /\ totalNoAmount' = encryptedTotalNo]_vars

TotalsWrittenOnce_Witness ==
    /\ currentPhase = "Settled"
    /\ isSettled
    /\ totalYesAmount > 0
    /\ totalNoAmount > 0

\* C23: while the phase is AwaitingDecryption every call fails except a
\* callbackAggregateDecryption with the stored request id and a proof that
\* verifies, and a step that is not that callback going through changes no
\* variable of the market: the phase stays AwaitingDecryption and the balance
\* stays as it is for as long as the callback is not delivered.
AwaitingDecryptionFrozen ==
    /\ [](currentPhase = "AwaitingDecryption" =>
            /\ \A sender \in Addrs, value \in Values, proofsOk \in BOOLEAN :
                  commitPredictionRevert(sender, value, proofsOk) # ""
            /\ aggregateBetsRevert # ""
            /\ requestAggregateDecryptionRevert # ""
            /\ \A requestId \in RequestIds, proof \in ProofSubjects :
                  /\ callbackAggregateDecryptionRevert(requestId, proof) = ""
                       <=> (/\ requestId = aggregateDecryptionRequestId
                            /\ checkSignatures(requestId, proof))
                  /\ callbackClaimRewardsRevert(requestId, proof) # ""
            /\ \A sender \in Addrs :
                  /\ \A value \in StakeValues : depositOwnerStakeRevert(sender, value) # ""
                  /\ proposeSettlementRevert(sender) # ""
                  /\ challengeSettlementRevert(sender) # ""
                  /\ claimRewardsRevert(sender) # ""
            /\ finalizeSettlementRevert # ""
            /\ settlePriceMarketRevert # "")
    /\ [][currentPhase = "AwaitingDecryption" =>
            \/ UNCHANGED marketVars
            \/ aggregateCallbackSucceeds]_vars

\* The request is pending after the event deadline and the challenge period
\* have gone by, with funds in the market.
AwaitingDecryptionFrozen_Witness ==
    /\ currentPhase = "AwaitingDecryption"
    /\ now > CHALLENGE_PERIOD
    /\ balance > 0

requestAggregateSucceeds ==
    \E sender \in Addrs :
        requestAggregateDecryptionRevert = "" /\ requestAggregateDecryption(sender)

\* C24: requestAggregateDecryption goes through only with isAggregated set
\* and in phase Aggregating, and then no aggregate request has been issued
\* yet; it stores the id the library issues as aggregateDecryptionRequestId
\* and moves the phase to AwaitingDecryption; at most one aggregate
\* decryption request is ever issued and the stored id never changes again.
SingleAggregateRequest ==
    /\ [](/\ requestAggregateDecryptionRevert = ""
               => (isAggregated /\ currentPhase = "Aggregating")
          /\ Occurrences(requests, "aggregate") <= 1
          /\ Occurrences(requests, "aggregate") = 1
               => (/\ requestAggregateDecryptionRevert # ""
                   /\ requests[aggregateDecryptionRequestId + 1] = "aggregate"))
    /\ [][requestAggregateSucceeds =>
            /\ Occurrences(requests, "aggregate") = 0
            /\ aggregateDecryptionRequestId' = NextRequestId
            /\ requests' = Append(requests, "aggregate")
            /\ currentPhase' = "AwaitingDecryption"]_vars
    /\ [][Occurrences(requests, "aggregate") = 1
            => aggregateDecryptionRequestId' = aggregateDecryptionRequestId]_vars

SingleAggregateRequest_Witness ==
    /\ Occurrences(requests, "aggregate") = 1
    /\ Len(requests) = MaxRequests
    /\ currentPhase = "Settled"

proposeSucceeds ==
    \E sender \in Addrs, outcome \in BOOLEAN :
        proposeSettlementRevert(sender) = "" /\ proposeSettlement(sender, outcome)

\* C25: proposeSettlement goes through only for the owner of an Event market
\* with a positive stake in escrow, at or after eventDeadline and with no
\* proposal recorded; it records the proposal and leaves isSettled and
\* finalOutcome alone; once a proposal is recorded, it stays recorded and
\* proposedOutcome and settlementProposedTime never change.
SingleProposal ==
    /\ [](\A sender \in Addrs :
            proposeSettlementRevert(sender) = "" =>
                /\ sender = owner
                /\ marketType = "Event"
                /\ ownerStake > 0
                /\ now >= eventDeadline
                /\ ~isSettlementProposed)
    /\ [][proposeSucceeds =>
            /\ isSettlementProposed'
            /\ settlementProposedTime' = now
            /\ ~isSettled /\ ~isSettled'
            /\ finalOutcome' = finalOutcome]_vars
    /\ [][isSettlementProposed =>
            /\ isSettlementProposed'
            /\ proposedOutcome' = proposedOutcome
            /\ settlementProposedTime' = settlementProposedTime]_vars

\* A proposal of YES stands while the clock has moved on.
SingleProposal_Witness ==
    /\ isSettlementProposed
    /\ proposedOutcome
    /\ ~isSettled
    /\ now > settlementProposedTime

challengeSucceeds ==
    \E sender \in Addrs :
        challengeSettlementRevert(sender) = "" /\ challengeSettlement(sender)

\* C26: challengeSettlement is accepted from an address that has committed
\* only, and a challenge that is accepted changes no variable, so that
\* finalizeSettlement is accepted or rejected after it exactly as before it.
ChallengeNoEffect ==
    /\ [](\A sender \in Addrs :
            challengeSettlementRevert(sender) = "" => commitments[sender].hasCommitted)
    /\ [][challengeSucceeds =>
            /\ UNCHANGED vars
            /\ finalizeSettlementRevert' = finalizeSettlementRevert]_vars

\* A participant's challenge is accepted and the owner's is rejected for
\* not being a participant.
ChallengeNoEffect_Witness ==
    /\ \E sender \in Addrs : challengeSettlementRevert(sender) = ""
    /\ challengeSettlementRevert(owner) = "Must be a participant"

\* The feed has no price, or its price is older than MAX_PRICE_AGE.
StalePrice ==
    \/ priceData.timestamp = 0
    \/ now - priceData.timestamp > MAX_PRICE_AGE

\* C27: with a stale or missing price settlePriceMarket fails, with the
\* feed's own error when every other require of it passes, so that no step
\* settles a Price market from a stale price.
NoStaleSettlement ==
    /\ [](StalePrice =>
            /\ settlePriceMarketRevert # ""
            /\ (/\ marketType = "Price"
                /\ ~isSettled
                /\ now >= eventDeadline
                /\ currentPhase = "Settled"
                /\ (totalYesAmount > 0 \/ totalNoAmount > 0))
                 => settlePriceMarketRevert \in {"Price not available", "Price too old"})
    /\ [][(marketType = "Price" /\ (isSettled' # isSettled \/ finalOutcome' # finalOutcome))
            => (~StalePrice /\ settlePriceSucceeds)]_vars

\* Everything but the age of the price allows the settlement.
NoStaleSettlement_Witness ==
    /\ settlePriceMarketRevert = "Price too old"
    /\ now - priceData.timestamp = MAX_PRICE_AGE + 1

\* The claim preconditions of the caller.
ClaimPreconditions(sender) ==
    /\ currentPhase = "Settled"
    /\ isSettled
    /\ commitments[sender].hasCommitted
    /\ ~hasClaimed[sender]

claimRequestBy(a) == claimRewardsRevert(a) = "" /\ claimRewards(a)

\* C28 as stated: claimRewards goes through only under the claim
\* preconditions, and an address that has not been paid has at most one claim
\* decryption request in flight.
OneClaimRequestInFlight ==
    /\ \A sender \in Addrs : claimRewardsRevert(sender) = "" => ClaimPreconditions(sender)
    /\ \A a \in Addrs : ~hasClaimed[a] => Occurrences(requests, a) <= 1

\* C28, amended: claimRewards goes through exactly under the claim
\* preconditions, also while earlier claim requests of the caller are in
\* flight; each call issues a new request and stores its id over the earlier
\* one, and a callback with a superseded id of an address fails.
ClaimRequestGating ==
    /\ [](\A sender \in Addrs :
            claimRewardsRevert(sender) = "" <=> ClaimPreconditions(sender))
    /\ [](\A a \in Addrs, requestId \in RequestIds, proof \in ProofSubjects :
            (/\ requestId < Len(requests)
             /\ requests[requestId + 1] = a
             /\ requestId # claimRequestIds[a])
                => callbackClaimRewardsRevert(requestId, proof) # "")
    /\ [][\A a \in Addrs :
            claimRequestBy(a) =>
                /\ requests' = Append(requests, a)
                /\ claimRequestIds'[a] = NextRequestId
                /\ \A b \in Addrs \ {a} : claimRequestIds'[b] = claimRequestIds[b]]_vars

\* Two claim requests of an unpaid address are in flight, the earlier one
\* with a proof that verifies.
ClaimRequestGating_Witness ==
    \E a \in Addrs, requestId \in RequestIds :
        /\ ~hasClaimed[a]
        /\ Occurrences(requests, a) = 2
        /\ requestId # claimRequestIds[a]
        /\ checkSignatures(requestId, a)

\* The address has requested a claim (request 0 is the aggregate request) and
\* its committed prediction does not match finalOutcome.
LoserWithRequest(a) ==
    /\ claimRequestIds[a] # 0
    /\ ~Won(commitments[a].encryptedPrediction)

\* C29: the callback of a loser's claim request is rejected with "You lost",
\* at every later delivery and after every new claimRewards of the loser as
\* well; the loser is never marked as having claimed and receives nothing,
\* and a rejected callback changes no variable.
LostNoSideEffects ==
    /\ [](\A a \in Addrs :
            LoserWithRequest(a) =>
                /\ callbackClaimRewardsRevert(claimRequestIds[a], a) = "You lost"
                /\ ~hasClaimed[a]
                /\ received[a] = 0)
    /\ [][\A a \in Addrs :
            LoserWithRequest(a) =>
                /\ LoserWithRequest(a)'
                /\ (callbackClaimRewardsRevert(claimRequestIds[a], a) = "You lost"
                     /\ callbackClaimRewards(claimRequestIds[a], a))
                      => UNCHANGED vars]_vars

\* A loser has a claim request out while the other participant has been paid.
LostNoSideEffects_Witness ==
    \E a \in Addrs, b \in Addrs :
        /\ LoserWithRequest(a)
        /\ hasClaimed[b]
        /\ received[b] > 0

\* C30: a settled market is in phase Settled; isSettled is never unset;
\* finalOutcome is false until the market is settled, changes only in the
\* step that sets isSettled and never after it.
SettlementStable ==
    /\ [](/\ isSettled => currentPhase = "Settled"
          /\ ~isSettled => ~finalOutcome
          /\ isSettled =>
                /\ finalizeSettlementRevert # ""
                /\ settlePriceMarketRevert # ""
                /\ \A sender \in Addrs : proposeSettlementRevert(sender) # "")
    /\ [][/\ isSettled => (isSettled' /\ finalOutcome' = finalOutcome)
          /\ finalOutcome' # finalOutcome => (~isSettled /\ isSettled')]_vars

\* Settled YES, with a payout made since.
SettlementStable_Witness ==
    /\ isSettled
    /\ finalOutcome
    /\ \E a \in Addrs : hasClaimed[a] /\ claimRequestIds[a] # 0

\* C31: participants holds no address twice and holds exactly the addresses
\* whose hasCommitted flag is set; every step keeps the list as a prefix of
\* the new one (append-only) and leaves the stored prediction and amount of
\* every address that has committed as they are.
ParticipantsAppendOnly ==
    /\ [](/\ \A i, j \in 1 .. Len(participants) :
                participants[i] = participants[j] => i = j
          /\ \A a \in Addrs :
                commitments[a].hasCommitted
                    <=> (\E i \in 1 .. Len(participants) : participants[i] = a))
    /\ [][/\ Len(participants') >= Len(participants)
          /\ SubSeq(participants', 1, Len(participants)) = participants
          /\ \A a \in Addrs :
                commitments[a].hasCommitted => commitments'[a] = commitments[a]]_vars

\* Two addresses have committed, the market is settled and one of them has
\* been paid.
ParticipantsAppendOnly_Witness ==
    /\ Len(participants) = 2
    /\ isSettled
    /\ \E a \in Addrs : hasClaimed[a]

\* C32: a commit is accepted only before commitmentDeadline and before
\* aggregateBets has run; from aggregation onward participants, the stored
\* commitments and the value paid in by commits never change, and the
\* encrypted totals are the sums of the aggregation loop over every stored
\* commitment.
CommitWindowClosed ==
    /\ [](/\ \A sender \in Addrs, value \in Values, proofsOk \in BOOLEAN :
                (now >= commitmentDeadline \/ isAggregated)
                    => commitPredictionRevert(sender, value, proofsOk) # ""
          /\ isAggregated =>
                /\ encryptedTotalYes = AggregateLoop(Len(participants))[1]
                /\ encryptedTotalNo = AggregateLoop(Len(participants))[2])
    /\ [][/\ commitSucceeds => (now < commitmentDeadline /\ ~isAggregated)
          /\ isAggregated =>
                /\ isAggregated'
                /\ participants' = participants
                /\ commitments' = commitments
                /\ committedValue' = committedValue]_vars

\* Aggregation has run over two commitments and the run has gone on to the
\* end of a challenge period.
CommitWindowClosed_Witness ==
    /\ isAggregated
    /\ Len(participants) = 2
    /\ encryptedTotalYes + encryptedTotalNo > 0
    /\ now > CHALLENGE_PERIOD

\* The committed amounts of participants[1..n].
RECURSIVE SumAmounts(_)
SumAmounts(n) ==
    IF n = 0 THEN 0
    ELSE SumAmounts(n - 1) + commitments[participants[n]].encryptedAmount

\* C33: once aggregation has run, the two contributions the loop computed for
\* each stored commitment, whatever its 8-bit prediction, add up (64-bit
\* wrap-around) to the commitment's amount, and the revealed totals together
\* do not exceed the sum of the committed amounts.
ContributionIsAmount ==
    isAggregated =>
        /\ \A i \in 1 .. Len(participants) :
              LET contribution == AddContribution(<<0, 0>>, participants[i])
              IN  Add64(contribution[1], contribution[2])
                      = commitments[participants[i]].encryptedAmount
        /\ totalYesAmount + totalNoAmount <= SumAmounts(Len(participants))

\* C34: once the totals are revealed, with every prediction 0 or 1 and no
\* wrap-around in the sums, totalYesAmount + totalNoAmount is the value paid
\* in by the commits, that is, the committed amounts add up to the values
\* attached to the commits.
RevealedTotalsArePool ==
    (currentPhase = "Settled" /\ AllBinary /\ SumAmounts(Len(participants)) < Mod64) =>
        /\ SumAmounts(Len(participants)) = committedValue
        /\ totalYesAmount + totalNoAmount = committedValue

\* C35: a settled market holds no owner stake and accepts none; a nonzero
\* ownerStake occurs only on an Event market that is not settled; so the
\* balance of a settled market, which the claim payouts are computed from, is
\* the value paid in by commits less the payouts made, with no stake in it.
StakeOutsidePayouts ==
    /\ isSettled => ownerStake = 0
    /\ ownerStake # 0 => (marketType = "Event" /\ ~isSettled)
    /\ isSettled => balance = committedValue - SumReceived(Addrs)
    /\ isSettled =>
          \A sender \in Addrs, value \in StakeValues :
              depositOwnerStakeRevert(sender, value) # ""

\* An Event market settled by finalizeSettlement, which a positive stake must
\* have preceded, with a payout made from its balance.
StakeOutsidePayouts_Witness ==
    /\ marketType = "Event"
    /\ isSettled
    /\ \E a \in Addrs : hasClaimed[a] /\ received[a] > 0

\* C36: in a settled market, the callback of the claim request of a
\* participant whose prediction matches finalOutcome and who has not claimed
\* goes through: the payout is computed without a division by zero and does
\* not exceed the balance.
WinnerCallbackSucceeds ==
    \A a \in Addrs :
        (/\ isSettled
         /\ commitments[a].hasCommitted
         /\ Won(commitments[a].encryptedPrediction)
         /\ ~hasClaimed[a]
         /\ claimRequestIds[a] # 0)
            => callbackClaimRewardsRevert(claimRequestIds[a], a) = ""

\* requestId is the id that the latest claimRewards call of some address was
\* given by the FHE library.
LatestClaimRequest(requestId) ==
    \E a \in Addrs :
        /\ requestId < Len(requests)
        /\ requests[requestId + 1] = a
        /\ claimRequestIds[a] = requestId

\* C37: a callbackClaimRewards call goes through only with the id of the
\* latest claim request of the participant it pays; with any other id (never
\* issued by claimRewards, superseded, or the default 0 of participants who
\* never requested a claim) it fails and pays nobody.
ClaimCallbackBinding ==
    /\ [](\A requestId \in RequestIds, proof \in ProofSubjects :
            ~LatestClaimRequest(requestId)
                => callbackClaimRewardsRevert(requestId, proof) # "")
    /\ [][\A a \in Addrs :
            claimCallbackPays(a) =>
                \E requestId \in RequestIds :
                    /\ requestId < Len(requests)
                    /\ requests[requestId + 1] = a
                    /\ claimRequestIds[a] = requestId]_vars

\* C38: for the market the factory created, the creator recorded by the
\* factory is the market's owner: its depositOwnerStake and proposeSettlement
\* calls pass the onlyOwner modifier, and on an Event market its commit is
\* refused.
CreatorIsOwner ==
    markets # <<>> =>
        LET creator == marketInfo[1].creator
        IN  /\ creator = owner
            /\ \A value \in StakeValues :
                  depositOwnerStakeRevert(creator, value) # "Only owner can call this"
            /\ proposeSettlementRevert(creator) # "Only owner can call this"
            /\ marketType = "Event" =>
                  \A value \in Values, proofsOk \in BOOLEAN :
                      commitPredictionRevert(creator, value, proofsOk) # ""

\* C39: for the market the factory created, the two deadlines recorded by
\* the factory are the market's own, and the market's eventDeadline is not
\* before its commitmentDeadline.
FactoryDeadlinesMatch ==
    markets # <<>> =>
        /\ marketInfo[1].commitmentDeadline = commitmentDeadline
        /\ marketInfo[1].eventDeadline = eventDeadline
        /\ eventDeadline >= commitmentDeadline

====
